---- MODULE Spec2Model ----
(***************************************************************************)
(* Ingestion of pprof CPU profiles into PostgreSQL (main.go) against the   *)
(* schema of pprof_data.sql.  Every caller runs ProfileStorage.            *)
(* CreateProfile once, in its own transaction.  The three tables are kept  *)
(* as their committed contents plus, per open transaction, the rows it has *)
(* written and not yet committed (READ COMMITTED: a statement sees the     *)
(* committed rows and the rows of its own transaction).                    *)
(***************************************************************************)
EXTENDS Integers, Sequences, FiniteSets, TLC

\* Number of concurrent callers of CreateProfile, one ingestion each.
NumCallers == 2

Procs == 1..NumCallers

(***************************************************************************)
(* Values                                                                  *)
(***************************************************************************)

\* time.Time{}: the zero value of Profile.CreatedAt and Profile.ReceivedAt.
ZeroTime == [wall |-> "zero", ns |-> 0]

\* time.Unix(0, nanos)
UnixTime(nanos) == [wall |-> "unix", ns |-> nanos]

\* errors.Wrap(cause, ctx); ctx = "" for an error returned unwrapped.
Wrap(cause, ctx) == [ctx |-> ctx, cause |-> cause]

\* A nil error.
NoErr == Wrap("", "")

\* Call sites (ln.Function.Name, ln.Function.Filename, ln.Line).
X == [func |-> "f1", file_name |-> "file1", line |-> 10]

Y == [func |-> "f2", file_name |-> "file2", line |-> 20]

\* One profile.Sample: Location is a sequence of locations, each the sequence
\* of its Line entries; Value is the value vector.
Smp(locs, value) == [Location |-> locs, Value |-> value]

\* A decoded profile.Profile.
Decoded(nanos, samples) == [TimeNanos |-> nanos, Sample |-> samples]

\* The files on disk: what profile.Parse yields for each path, or no entry
\* for a file that does not decode.
Files ==
  [ a |-> Decoded(7, << Smp(<< <<X>>, <<X>> >>, <<5, 100>>),
                        Smp(<< <<X>>, <<Y>> >>, <<3, 60>>) >>),
    b |-> Decoded(0, << Smp(<< <<Y, X>> >>, <<1, 10>>),
                        Smp(<< <<Y, X>> >>, <<1, 10>>) >>),
    c |-> Decoded(0, << Smp(<< >>, <<2, 20>>),
                        Smp(<< << >> >>, <<4, 40>>) >>),
    h |-> Decoded(7, << Smp(<< <<X>> >>, <<1, 2, 3>>) >>),
    w |-> Decoded(7, << Smp(<< <<Y>> >>, <<9>>) >>),
    z |-> Decoded(7, << >>) ]

\* Metadata maps handed to CreateProfile.  MetaRun is the one run() builds.
MetaRun ==
  [ build_id |-> "456", token |-> "fra.1", service |-> "adjust_server",
    dc |-> "fra", host |-> "backend-1" ]

MetaRenamed ==
  [ build_id |-> "456", token |-> "fra.1", service |-> "other_server",
    dc |-> "ams" ]

MetaKnown == [ build_id |-> "123", token |-> "fra.1", service |-> "other_server" ]

MetaBadTime ==
  [ build_id |-> "456", token |-> "fra.1", received_at |-> "not-a-date",
    dc |-> "fra" ]

MetaGoodTime ==
  [ build_id |-> "456", token |-> "fra.1", received_at |-> "2020-01-01T00:00:00Z" ]

\* The calls the callers choose from.
Calls ==
  { [meta |-> MetaRun,      file |-> "a"],
    [meta |-> MetaRenamed,  file |-> "a"],
    [meta |-> MetaKnown,    file |-> "b"],
    [meta |-> MetaRenamed,  file |-> "c"],
    [meta |-> MetaRenamed,  file |-> "h"],
    [meta |-> MetaKnown,    file |-> "w"],
    [meta |-> MetaBadTime,  file |-> "a"],
    [meta |-> MetaGoodTime, file |-> "z"],
    [meta |-> MetaRenamed,  file |-> "corrupt"] }

\* The wall-clock times at which an ingestion may run.
Clock == {1000}

(***************************************************************************)
(* Profile.Parse and ProfileStorage.createProfile                          *)
(***************************************************************************)

\* time.Parse(time.RFC3339, v): the values that parse, with their time.
RFC3339 == [ t \in {"2020-01-01T00:00:00Z"} |-> UnixTime(500) ]

\* Profile.Parse: os.Open and profile.Parse of the file.
Parse(filePath) ==
  IF filePath \in DOMAIN Files
    THEN [err |-> NoErr, prof |-> Files[filePath]]
    ELSE [err |-> Wrap("parsing profile", ""), prof |-> Decoded(0, << >>)]

\* &Profile{} after a successful Parse.
NewProfile(decoded) ==
  [ prof |-> decoded, BuildID |-> "", Token |-> "", Service |-> "",
    CreatedAt |-> ZeroTime, ReceivedAt |-> ZeroTime, Labels |-> << >> ]

\* MetaCase with the error of time.Parse dropped instead of returned.
MetaCaseIgnoresBadTime(p, k, v) ==
  CASE k = "build_id" -> [err |-> NoErr, prof |-> [p EXCEPT !.BuildID = v]]
    [] k = "token" -> [err |-> NoErr, prof |-> [p EXCEPT !.Token = v]]
    [] k = "service" -> [err |-> NoErr, prof |-> [p EXCEPT !.Service = v]]
    [] k = "received_at" ->
         IF v \in DOMAIN RFC3339
           THEN [err |-> NoErr, prof |-> [p EXCEPT !.ReceivedAt = RFC3339[v]]]
           ELSE [err |-> NoErr, prof |-> p]
    [] OTHER -> [err |-> NoErr, prof |-> [p EXCEPT !.Labels = (k :> v) @@ @]]

\* MetaCase whose switch also falls through to the labels for the service
\* name and for a received_at that parsed.
MetaCaseLabelsToo(p, k, v) ==
  CASE k = "build_id" -> [err |-> NoErr, prof |-> [p EXCEPT !.BuildID = v]]
    [] k = "token" -> [err |-> NoErr, prof |-> [p EXCEPT !.Token = v]]
    [] k = "service" ->
         [err |-> NoErr,
          prof |-> [p EXCEPT !.Service = v, !.Labels = (k :> v) @@ @]]
    [] k = "received_at" ->
         IF v \in DOMAIN RFC3339
           THEN [err |-> NoErr,
                 prof |-> [p EXCEPT !.ReceivedAt = RFC3339[v],
                                    !.Labels = (k :> v) @@ @]]
           ELSE [err |-> Wrap("parsing time", ""), prof |-> p]
    [] OTHER -> [err |-> NoErr, prof |-> [p EXCEPT !.Labels = (k :> v) @@ @]]

\* The body of `for k, v := range meta` for one key.
MetaCase(p, k, v) ==
  CASE k = "build_id" -> [err |-> NoErr, prof |-> [p EXCEPT !.BuildID = v]]
    [] k = "token" -> [err |-> NoErr, prof |-> [p EXCEPT !.Token = v]]
    [] k = "service" -> [err |-> NoErr, prof |-> [p EXCEPT !.Service = v]]
    [] k = "received_at" ->
         IF v \in DOMAIN RFC3339
           THEN [err |-> NoErr, prof |-> [p EXCEPT !.ReceivedAt = RFC3339[v]]]
           ELSE [err |-> Wrap("parsing time", ""), prof |-> p]
    [] OTHER -> [err |-> NoErr, prof |-> [p EXCEPT !.Labels = (k :> v) @@ @]]

\* The range loop over meta, visiting the keys in the order `order`.
RECURSIVE MetaLoop(_, _, _)
MetaLoop(p, meta, order) ==
  IF order = << >> THEN [err |-> NoErr, prof |-> p]
  ELSE LET r == MetaCase(p, Head(order), meta[Head(order)])
       IN IF r.err # NoErr THEN r ELSE MetaLoop(r.prof, meta, Tail(order))

\* The orders in which a range over a map with these keys can visit them.
KeyOrders(keys) ==
  { o \in [1..Cardinality(keys) -> keys] :
      \A i, j \in DOMAIN o : i # j => o[i] # o[j] }

\* createProfile(meta, filePath) when the map is visited in the order `order`.
createProfile(meta, filePath, order) ==
  LET parsed == Parse(filePath)
      p0 == NewProfile(parsed.prof)
      p1 == IF parsed.prof.TimeNanos # 0
              THEN [p0 EXCEPT !.CreatedAt = UnixTime(parsed.prof.TimeNanos)]
              ELSE p0
  IN IF parsed.err # NoErr THEN [err |-> parsed.err, prof |-> p0]
     ELSE MetaLoop(p1, meta, order)

\* hstoreFromLabels
hstoreFromLabels(labels) ==
  [ key \in DOMAIN labels |-> [String |-> labels[key], Valid |-> TRUE] ]

(***************************************************************************)
(* The arguments of the COPY loop                                          *)
(***************************************************************************)

RECURSIVE Concat(_)
Concat(ss) == IF ss = << >> THEN << >> ELSE Head(ss) \o Concat(Tail(ss))

\* The copyStmt.ExecContext calls of the three nested loops, in order.  Go
\* indexes sampleID and locID from 0.
CopyArgs(decoded) ==
  Concat([ s \in 1..Len(decoded.Sample) |->
    Concat([ l \in 1..Len(decoded.Sample[s].Location) |->
      [ n \in 1..Len(decoded.Sample[s].Location[l]) |->
          [ sample_id |-> s - 1, location_id |-> l - 1,
            ln |-> decoded.Sample[s].Location[l][n],
            Value |-> decoded.Sample[s].Value ] ] ]) ])

\* The row one copyStmt.ExecContext call stages (needs Value[0], Value[1]).
StagedRow(arg) ==
  [ sample_id |-> arg.sample_id, location_id |-> arg.location_id,
    func |-> arg.ln.func, file_name |-> arg.ln.file_name, line |-> arg.ln.line,
    value_cpu |-> arg.Value[1], value_nanos |-> arg.Value[2] ]

Triple(r) == [func |-> r.func, file_name |-> r.file_name, line |-> r.line]

(***************************************************************************)
(* State                                                                   *)
(***************************************************************************)

VARIABLES
  services,   \* committed rows of services
  locations,  \* committed rows of profile_pprof_locations
  samples,    \* committed rows of profile_pprof_samples_cpu
  seq,        \* last value of the location_id sequence (SERIAL)
  tx,         \* per caller: its *sql.Tx, with the rows it wrote, uncommitted
  tmp,        \* per connection: profile_pprof_samples_tmp in its session
  conn,       \* per caller: the connection of the pool its transaction is on
  pc,         \* per caller: position in CreateProfile
  call,       \* per caller: the arguments of its CreateProfile call
  prof,       \* per caller: the *Profile createProfile returned
  idx,        \* per caller: position in the COPY loop / the INSERT..SELECT scan
  err,        \* per caller: the error CreateProfile returned (NoErr: nil)
  commits     \* history: the callers in the order their transactions committed

vars ==
  << services, locations, samples, seq, tx, tmp, pc, call, conn, prof, idx, err,
     commits >>

\* A transaction object holding no uncommitted rows.
Tx(status) ==
  [status |-> status, services |-> {}, locations |-> {}, samples |-> {}]

\* The connections of the pool of s.db: at most one per concurrent caller.
Conns == Procs

\* The session of one connection: whether profile_pprof_samples_tmp is
\* absent, created by the transaction now open on the connection, or exists
\* since an earlier transaction; and its rows, each with the caller whose
\* transaction staged it.
Session(table, rows) == [table |-> table, rows |-> rows]

NoCall == [meta |-> [build_id |-> ""], file |-> "", at |-> 0]

\* One row of the INSERT at the end of pprof_data.sql.
SeedService(token, labels) ==
  [ build_id |-> "123", token |-> token, name |-> "adjust_server",
    labels |-> hstoreFromLabels(labels), by |-> 0 ]

\* The rows of services after pprof_data.sql has run.
SeedRows ==
  { SeedService("fra.1", [dc |-> "fra", host |-> "backend-1", version |-> "1.0"]),
    SeedService("fra.2", [dc |-> "fra", host |-> "backend-1", version |-> "1.0"]),
    SeedService("ams.2", [dc |-> "ams", host |-> "ams-backend-1.adjust.com",
                          version |-> "1.0"]) }

\* The database after pprof_data.sql has run, and no call made yet.
Init ==
  /\ services = SeedRows
  /\ locations = {}
  /\ samples = {}
  /\ seq = 0
  /\ tx = [p \in Procs |-> Tx("none")]
  /\ tmp = [c \in Conns |-> Session("absent", << >>)]
  /\ conn = [p \in Procs |-> 0]
  /\ pc = [p \in Procs |-> "idle"]
  /\ call = [p \in Procs |-> NoCall]
  /\ prof = [p \in Procs |-> NewProfile(Decoded(0, << >>))]
  /\ idx = [p \in Procs |-> 1]
  /\ err = [p \in Procs |-> NoErr]
  /\ commits = << >>

(***************************************************************************)
(* The transaction                                                         *)
(***************************************************************************)

\* The committed tables as one value.
DB == [services |-> services, locations |-> locations, samples |-> samples]

\* tx.Commit() that writes the transaction's locations over the dictionary.
TxCommitReplacesLocations(db, t) ==
  IF t.status = "active"
    THEN [ db |-> [ services |-> db.services \cup t.services,
                    locations |-> t.locations,
                    samples |-> db.samples \cup t.samples ],
           tx |-> Tx("committed") ]
    ELSE [db |-> db, tx |-> t]

\* tx.Commit(): the rows of the transaction become committed rows.
TxCommit(db, t) ==
  IF t.status = "active"
    THEN [ db |-> [ services |-> db.services \cup t.services,
                    locations |-> db.locations \cup t.locations,
                    samples |-> db.samples \cup t.samples ],
           tx |-> Tx("committed") ]
    ELSE [db |-> db, tx |-> t]

\* TxRollback that leaves the rows of the transaction in the tables.
TxRollbackKeepsRows(db, t) ==
  IF t.status = "active"
    THEN [ db |-> [ services |-> db.services \cup t.services,
                    locations |-> db.locations \cup t.locations,
                    samples |-> db.samples \cup t.samples ],
           tx |-> Tx("aborted") ]
    ELSE [db |-> db, tx |-> t]

\* tx.Rollback(), deferred at line 165: discards the rows of an open
\* transaction; on a finished transaction it is sql.ErrTxDone and does nothing.
TxRollback(db, t) ==
  IF t.status = "active"
    THEN [db |-> db, tx |-> Tx("aborted")]
    ELSE [db |-> db, tx |-> t]

\* The session after its transaction committed with the table of
\* sqlCreateTempTable kept as it is.
SessionPreservingRows(sn) == Session("exists", sn.rows)

\* The session after its transaction committed: the table stays, and
\* ON COMMIT DELETE ROWS empties it.
SessionAfterCommit(sn) == Session("exists", << >>)

\* The session after the transaction of caller p was rolled back: a table
\* the transaction created is gone, and so are the rows it staged.
SessionAfterRollback(sn, p) ==
  Session(IF sn.table = "created" THEN "absent" ELSE sn.table,
          SelectSeq(sn.rows, LAMBDA e : e.by # p))

\* The new state of the tables, of caller p's transaction and of the session
\* of its connection when the transaction ends as r.
Finish(p, r) ==
  /\ services' = r.db.services
  /\ locations' = r.db.locations
  /\ samples' = r.db.samples
  /\ tx' = [tx EXCEPT ![p] = r.tx]
  /\ tmp' = [tmp EXCEPT ![conn[p]] =
               IF r.tx.status = "committed"
                 THEN SessionAfterCommit(@)
                 ELSE SessionAfterRollback(@, p)]

\* The rows of profile_pprof_samples_tmp a statement of caller p reads.
Staged(p) == [i \in 1..Len(tmp[conn[p]].rows) |-> tmp[conn[p]].rows[i].row]

\* Rows written by the open transactions of the other callers.
OthersServices(p) == UNION { tx[q].services : q \in Procs \ {p} }

\* Rows that conflict on PRIMARY KEY (build_id, token).
ServiceConflicts(rows, r) ==
  { s \in rows : s.build_id = r.build_id /\ s.token = r.token }

\* Rows that conflict on UNIQUE (func, file_name, line).
LocationConflicts(rows, t) == { l \in rows : Triple(l) = t }

\* The message each step wraps its error with.
StepContext ==
  [ begin |-> "",
    services |-> "could not INSERT service",
    temptable |-> "could not create temp table",
    prepare |-> "could not prepare COPY statement",
    copy |-> "could not exec COPY statement",
    flush |-> "could not exec COPY statement",
    locations |-> "could not insert locations",
    samples |-> "could not insert samples",
    close |-> "could not close COPY statement",
    commit |-> "could not commit transaction" ]

TxSteps == DOMAIN StepContext \ {"begin"}

(***************************************************************************)
(* The SQL statements                                                      *)
(***************************************************************************)

\* The rows a statement adds to its transaction, and the error it ends with.
Done(rows) == [rows |-> rows, err |-> ""]

\* sqlInsertServices without its ON CONFLICT clause: a key conflict is an error.
sqlInsertServicesNoClause(visible, row) ==
  IF ServiceConflicts(visible, row) # {}
    THEN [rows |-> {}, err |-> "duplicate key value violates unique constraint"]
    ELSE Done({row})

\* sqlInsertServices against a table without its primary key.
sqlInsertServicesNoKey(visible, row) == Done({row})

\* sqlInsertServices, given the rows the statement can see:
\* INSERT INTO services ... ON CONFLICT (build_id, token) DO NOTHING.
sqlInsertServices(visible, row) ==
  IF ServiceConflicts(visible, row) # {} THEN Done({}) ELSE Done({row})

\* sqlInsertLocations against a table without UNIQUE (func, file_name, line).
sqlInsertLocationsNoKey(visible, t, id, by) ==
  Done({ [ location_id |-> id, func |-> t.func, file_name |-> t.file_name,
           line |-> t.line, by |-> by ] })

\* sqlInsertLocations for one row of the scan of profile_pprof_samples_tmp:
\* INSERT INTO profile_pprof_locations ... ON CONFLICT DO NOTHING, where id is
\* the value drawn from the location_id sequence for the row.
sqlInsertLocations(visible, t, id, by) ==
  IF LocationConflicts(visible, t) # {} THEN Done({})
  ELSE Done({ [ location_id |-> id, func |-> t.func, file_name |-> t.file_name,
                line |-> t.line, by |-> by ] })

\* All the orders in which the elements of a finite set can be listed.
Orderings(S) ==
  { o \in [1..Cardinality(S) -> S] :
      \A i, j \in DOMAIN o : i # j => o[i] # o[j] }

\* GROUP BY value_cpu, value_nanos: the sample ordinal is no part of the key.
GroupKeyNoOrdinal(r) ==
  [sample_id |-> 0, value_cpu |-> r.value_cpu, value_nanos |-> r.value_nanos]

\* GROUP BY sample_id, value_cpu, value_nanos
GroupKey(r) ==
  [sample_id |-> r.sample_id, value_cpu |-> r.value_cpu, value_nanos |-> r.value_nanos]

\* tmp INNER JOIN profile_pprof_locations l ON func, file_name, line: pairs of
\* the position of a staged row and a matching location row.
Joined(staged, visible) ==
  { j \in (1..Len(staged)) \X visible : Triple(staged[j[1]]) = Triple(j[2]) }

\* array_agg(DISTINCT l.location_id): each id of the group once.
ArrayAggDistinct(group) ==
  LET rows == { <<0, j[2]>> : j \in group }
  IN { [i \in 1..Cardinality(rows) |-> o[i][2].location_id] : o \in Orderings(rows) }

\* array_agg(l.location_id) over one group.  The statement has no ORDER BY, so
\* the ids of the group come in any order the plan happens to produce.
ArrayAgg(group) ==
  { [i \in 1..Cardinality(group) |-> o[i][2].location_id] : o \in Orderings(group) }

\* sqlInsertSamples: the sets of rows the statement can insert.  sample_id
\* and by are not columns: they record the group and the caller of the row.
sqlInsertSamples(staged, visible, build_id, token, created_at, by) ==
  LET joined == Joined(staged, visible)
      keys == { GroupKey(staged[j[1]]) : j \in joined }
      group(k) == { j \in joined : GroupKey(staged[j[1]]) = k }
      arrays == UNION { ArrayAgg(group(k)) : k \in keys }
      aggs == { g \in [keys -> arrays] : \A k \in keys : g[k] \in ArrayAgg(group(k)) }
  IN { { [ build_id |-> build_id, token |-> token, locations |-> g[k],
           created_at |-> created_at, value_cpu |-> k.value_cpu,
           value_nanos |-> k.value_nanos, sample_id |-> k.sample_id, by |-> by ]
         : k \in keys } : g \in aggs }

(***************************************************************************)
(* CreateProfile, step by step                                             *)
(***************************************************************************)

\* return of CreateProfile with error e (nil: NoErr); the deferred
\* tx.Rollback() runs on every return after line 165.
Return(p, e, r) ==
  /\ Finish(p, TxRollback(r.db, r.tx))
  /\ pc' = [pc EXCEPT ![p] = "returned"]
  /\ err' = [err EXCEPT ![p] = e]
  /\ idx' = [idx EXCEPT ![p] = 1]

\* What createProfile can return, over the orders in which the range loop
\* may visit the keys of meta.
createProfileResults(meta, filePath) ==
  { createProfile(meta, filePath, order) : order \in KeyOrders(DOMAIN meta) }

\* Lines 155-159: createProfile on the arguments c, and the return on its
\* error.
Start(p, c) ==
  /\ pc[p] = "idle"
  /\ \E at \in Clock : \E r \in createProfileResults(c.meta, c.file) :
       /\ call' = [call EXCEPT ![p] = [meta |-> c.meta, file |-> c.file, at |-> at]]
       /\ prof' = [prof EXCEPT ![p] = r.prof]
       /\ IF r.err # NoErr
            THEN /\ pc' = [pc EXCEPT ![p] = "returned"]
                 /\ err' = [err EXCEPT ![p] =
                              Wrap(r.err.cause, "could not parse profile")]
            ELSE /\ pc' = [pc EXCEPT ![p] = "begin"]
                 /\ UNCHANGED err
  /\ UNCHANGED << services, locations, samples, seq, tx, tmp, conn, idx, commits >>

\* A caller calls CreateProfile with one of the calls of the catalog.
CallCreateProfile(p) == \E c \in Calls : Start(p, c)

\* The connections s.db.Begin() can hand out: an idle connection of the
\* pool, or a new one when the pool opens one (the unused one of lowest number).
FreeConns ==
  LET busy == { conn[q] : q \in { r \in Procs : tx[r].status = "active" } }
      used == { conn[q] : q \in Procs } \ {0}
      fresh == Conns \ used
  IN (used \ busy) \cup { c \in fresh : \A d \in fresh : c <= d }

\* Lines 161-165: s.db.Begin() succeeds.
Begin(p) ==
  /\ pc[p] = "begin"
  /\ \E c \in FreeConns : conn' = [conn EXCEPT ![p] = c]
  /\ tx' = [tx EXCEPT ![p] = Tx("active")]
  /\ pc' = [pc EXCEPT ![p] = "services"]
  /\ UNCHANGED << services, locations, samples, seq, tmp, call, prof, idx, err,
                  commits >>

\* Lines 161-164: s.db.Begin() fails; the error is returned as it is.
BeginFails(p) ==
  /\ pc[p] = "begin"
  /\ pc' = [pc EXCEPT ![p] = "returned"]
  /\ err' = [err EXCEPT ![p] = Wrap("db error", StepContext["begin"])]
  /\ UNCHANGED << services, locations, samples, seq, tx, tmp, call, conn, prof, idx,
                  commits >>

\* Any statement of the open transaction fails in the database or on the
\* connection: the `if err != nil { return errors.Wrap(...) }` of that step.
ExecFails(p) ==
  /\ pc[p] \in TxSteps
  /\ Return(p, Wrap("db error", StepContext[pc[p]]), [db |-> DB, tx |-> tx[p]])
  /\ UNCHANGED << seq, call, conn, prof, commits >>

\* Lines 167-177.  The insert waits while another open transaction holds an
\* uncommitted row with the same key.
InsertServices(p) ==
  LET row == [ build_id |-> prof[p].BuildID, token |-> prof[p].Token,
               name |-> prof[p].Service,
               labels |-> hstoreFromLabels(prof[p].Labels), by |-> p ]
      r == sqlInsertServices(services \cup tx[p].services, row)
  IN /\ pc[p] = "services"
     /\ ServiceConflicts(OthersServices(p), row) = {}
     /\ IF r.err # ""
          THEN /\ Return(p, Wrap(r.err, StepContext["services"]),
                         [db |-> DB, tx |-> tx[p]])
               /\ UNCHANGED << seq, call, conn, prof, commits >>
          ELSE /\ tx' = [tx EXCEPT ![p].services = @ \cup r.rows]
               /\ pc' = [pc EXCEPT ![p] = "temptable"]
               /\ UNCHANGED << services, locations, samples, seq, tmp, call, conn, prof,
                               idx, err, commits >>

\* Lines 179-182: CREATE TEMPORARY TABLE IF NOT EXISTS ... ON COMMIT DELETE ROWS.
CreateTempTable(p) ==
  /\ pc[p] = "temptable"
  /\ tmp' = [tmp EXCEPT ![conn[p]].table = IF @ = "absent" THEN "created" ELSE @]
  /\ pc' = [pc EXCEPT ![p] = "prepare"]
  /\ UNCHANGED << services, locations, samples, seq, tx, call, conn, prof, idx,
                  err, commits >>

\* PrepareCopy that returns an error for a profile that has nothing to stage.
PrepareCopyRejectsEmpty(p) ==
  /\ pc[p] = "prepare"
  /\ IF CopyArgs(prof[p].prof) = << >>
       THEN /\ Return(p, Wrap("no samples", StepContext["prepare"]),
                      [db |-> DB, tx |-> tx[p]])
            /\ UNCHANGED << seq, call, conn, prof, commits >>
       ELSE /\ pc' = [pc EXCEPT ![p] = "copy"]
            /\ idx' = [idx EXCEPT ![p] = 1]
            /\ UNCHANGED << services, locations, samples, seq, tx, tmp, call, conn,
                            prof, err, commits >>

\* Lines 184-187: tx.PrepareContext(ctx, sqlCopyTable).
PrepareCopy(p) ==
  /\ pc[p] = "prepare"
  /\ pc' = [pc EXCEPT ![p] =
              IF CopyArgs(prof[p].prof) = << >> THEN "flush" ELSE "copy"]
  /\ idx' = [idx EXCEPT ![p] = 1]
  /\ UNCHANGED << services, locations, samples, seq, tx, tmp, call, conn, prof, err,
                  commits >>

\* Lines 189-207: one copyStmt.ExecContext of the loop.  sample.Value[0] and
\* sample.Value[1] panic (index out of range) on a shorter Value; the panic
\* unwinds through the deferred tx.Rollback().
CopyExec(p) ==
  LET args == CopyArgs(prof[p].prof)
      arg == args[idx[p]]
  IN /\ pc[p] = "copy"
     /\ IF Len(arg.Value) < 2
          THEN /\ Finish(p, TxRollback(DB, tx[p]))
               /\ pc' = [pc EXCEPT ![p] = "panicked"]
               /\ err' = [err EXCEPT ![p] = Wrap("index out of range", "panic")]
               /\ idx' = [idx EXCEPT ![p] = 1]
          ELSE /\ tmp' = [tmp EXCEPT ![conn[p]].rows =
                            Append(@, [by |-> p, row |-> StagedRow(arg)])]
               /\ idx' = [idx EXCEPT ![p] = @ + 1]
               /\ pc' = [pc EXCEPT ![p] = IF idx[p] = Len(args) THEN "flush" ELSE "copy"]
               /\ UNCHANGED << services, locations, samples, tx, err >>
     /\ UNCHANGED << seq, call, conn, prof, commits >>

\* CopyFlush that goes on to the sample insert, leaving out the location insert.
CopyFlushSkipsLocations(p) ==
  /\ pc[p] = "flush"
  /\ pc' = [pc EXCEPT ![p] = "samples"]
  /\ idx' = [idx EXCEPT ![p] = 1]
  /\ UNCHANGED << services, locations, samples, seq, tx, tmp, call, conn, prof, err,
                  commits >>

\* Lines 209-212: the final copyStmt.ExecContext(ctx) sends the rows.
CopyFlush(p) ==
  /\ pc[p] = "flush"
  /\ pc' = [pc EXCEPT ![p] = "locations"]
  /\ idx' = [idx EXCEPT ![p] = 1]
  /\ UNCHANGED << services, locations, samples, seq, tx, tmp, call, conn, prof, err,
                  commits >>

\* The caller whose uncommitted location row makes p's scan wait, if any.
WaitsFor(p) ==
  IF pc[p] = "locations" /\ idx[p] <= Len(Staged(p))
    THEN { q \in Procs \ {p} :
             LocationConflicts(tx[q].locations, Triple(Staged(p)[idx[p]])) # {} }
    ELSE {}

\* Lines 214-217, one row of the INSERT ... SELECT scan of the staging table
\* (or its end).  The sequence value drawn for a row is used up even when the
\* row conflicts.  The row waits while another open transaction holds an
\* uncommitted row with the same (func, file_name, line).
InsertLocations(p) ==
  /\ pc[p] = "locations"
  /\ WaitsFor(p) = {}
  /\ IF idx[p] > Len(Staged(p))
       THEN /\ pc' = [pc EXCEPT ![p] = "samples"]
            /\ UNCHANGED << services, locations, samples, seq, tx, tmp, idx, err >>
       ELSE LET r == sqlInsertLocations(locations \cup tx[p].locations,
                                        Triple(Staged(p)[idx[p]]), seq + 1, p)
            IN IF r.err # ""
                 THEN /\ Return(p, Wrap(r.err, StepContext["locations"]),
                                [db |-> DB, tx |-> tx[p]])
                      /\ UNCHANGED seq
                 ELSE /\ tx' = [tx EXCEPT ![p].locations = @ \cup r.rows]
                      /\ seq' = seq + 1
                      /\ idx' = [idx EXCEPT ![p] = @ + 1]
                      /\ pc' = [pc EXCEPT ![p] =
                                  IF idx[p] = Len(Staged(p)) THEN "samples" ELSE "locations"]
                      /\ UNCHANGED << services, locations, samples, tmp, err >>
  /\ UNCHANGED << call, conn, prof, commits >>

\* Two scans wait for each other's uncommitted rows: PostgreSQL detects the
\* deadlock and ends the statement of one of them with an error (line 215).
DeadlockDetected(p) ==
  /\ \E q \in WaitsFor(p) : p \in WaitsFor(q)
  /\ Return(p, Wrap("deadlock detected", StepContext["locations"]),
            [db |-> DB, tx |-> tx[p]])
  /\ UNCHANGED << seq, call, conn, prof, commits >>

\* InsertSamples run on s.db instead of tx: the rows are committed at once.
InsertSamplesOutsideTx(p) ==
  /\ pc[p] = "samples"
  /\ \E rows \in sqlInsertSamples(Staged(p), locations \cup tx[p].locations,
                                  prof[p].BuildID, prof[p].Token,
                                  prof[p].CreatedAt, p) :
       samples' = samples \cup rows
  /\ pc' = [pc EXCEPT ![p] = "close"]
  /\ UNCHANGED << services, locations, seq, tx, tmp, call, conn, prof, idx, err,
                  commits >>

\* Lines 219-228: INSERT INTO profile_pprof_samples_cpu ... SELECT.
InsertSamples(p) ==
  /\ pc[p] = "samples"
  /\ \E rows \in sqlInsertSamples(Staged(p), locations \cup tx[p].locations,
                                  prof[p].BuildID, prof[p].Token,
                                  prof[p].CreatedAt, p) :
       tx' = [tx EXCEPT ![p].samples = @ \cup rows]
  /\ pc' = [pc EXCEPT ![p] = "close"]
  /\ UNCHANGED << services, locations, samples, seq, tmp, call, conn, prof, idx, err,
                  commits >>

\* Lines 230-232: copyStmt.Close().
CloseCopy(p) ==
  /\ pc[p] = "close"
  /\ pc' = [pc EXCEPT ![p] = "commit"]
  /\ UNCHANGED << services, locations, samples, seq, tx, tmp, call, conn, prof, idx,
                  err, commits >>

\* Lines 234-238: tx.Commit() succeeds, CreateProfile returns nil and the
\* deferred tx.Rollback() runs on the committed transaction.
Commit(p) ==
  /\ pc[p] = "commit"
  /\ Return(p, NoErr, TxCommit(DB, tx[p]))
  /\ commits' = Append(commits, p)
  /\ UNCHANGED << seq, call, conn, prof >>

Next ==
  \E p \in Procs :
    \/ CallCreateProfile(p)
    \/ Begin(p)
    \/ BeginFails(p)
    \/ ExecFails(p)
    \/ InsertServices(p)
    \/ CreateTempTable(p)
    \/ PrepareCopy(p)
    \/ CopyExec(p)
    \/ CopyFlush(p)
    \/ InsertLocations(p)
    \/ DeadlockDetected(p)
    \/ InsertSamples(p)
    \/ CloseCopy(p)
    \/ Commit(p)

Spec == Init /\ [][Next]_vars

(***************************************************************************)
(* run: the files of the command line, one after the other                 *)
(***************************************************************************)

\* The files run may be given; position p of the list is ingestion p.
RunFiles == { c.file : c \in Calls }

\* The loop of run that goes on to the next file whatever the last returned.
RunLoopIgnoresError(p) ==
  /\ p = 1 \/ (p > 1 /\ pc[p - 1] = "returned")
  /\ \E f \in RunFiles : Start(p, [meta |-> MetaRun, file |-> f])

\* Lines 88-92: the loop calls CreateProfile for file p with the meta of
\* lines 78-84 once the call for file p - 1 returned nil; an error ends run.
RunLoop(p) ==
  /\ p = 1 \/ (p > 1 /\ pc[p - 1] = "returned" /\ err[p - 1] = NoErr)
  /\ \E f \in RunFiles : Start(p, [meta |-> MetaRun, file |-> f])

\* The process ends while CreateProfile for file p is under way (a signal;
\* run installs no handler): nothing more of run executes, and the server
\* rolls back the transaction of the connection that went away.
Stop(p) ==
  /\ pc[p] \in {"begin"} \cup TxSteps
  /\ pc' = [pc EXCEPT ![p] = "stopped"]
  /\ idx' = [idx EXCEPT ![p] = 1]
  /\ IF tx[p].status = "active"
       THEN Finish(p, TxRollback(DB, tx[p]))
       ELSE UNCHANGED << services, locations, samples, tx, tmp >>
  /\ UNCHANGED << seq, call, conn, prof, err, commits >>

RunNext ==
  \E p \in Procs :
    \/ RunLoop(p)
    \/ Begin(p)
    \/ BeginFails(p)
    \/ ExecFails(p)
    \/ InsertServices(p)
    \/ CreateTempTable(p)
    \/ PrepareCopy(p)
    \/ CopyExec(p)
    \/ CopyFlush(p)
    \/ InsertLocations(p)
    \/ InsertSamples(p)
    \/ CloseCopy(p)
    \/ Commit(p)
    \/ Stop(p)

RunSpec == Init /\ [][RunNext]_vars

(***************************************************************************)
(* Vocabulary of the properties                                            *)
(***************************************************************************)

\* The rows of a table that caller p's ingestion wrote.
RowsBy(table, p) == { r \in table : r.by = p }

\* CreateProfile of caller p is over (returned or unwound by a panic).
Over(p) == pc[p] \in {"returned", "panicked"}

HasCommitted(p) == tx[p].status = "committed"

\* The decoded snapshot of caller p's file.
Snapshot(p) == Files[call[p].file]

\* The (function, file, line) entries of one sample, by location, then by
\* line within the location.
SampleLines(sample) == Concat(sample.Location)

Range(f) == { f[i] : i \in DOMAIN f }

\* Every (function, file, line) entry of a snapshot.
TriplesOf(decoded) ==
  UNION { Range(SampleLines(decoded.Sample[s])) : s \in DOMAIN decoded.Sample }

\* The identity (build_id, token) a metadata map names.
Identity(meta) ==
  [ build_id |-> IF "build_id" \in DOMAIN meta THEN meta.build_id ELSE "",
    token |-> IF "token" \in DOMAIN meta THEN meta.token ELSE "" ]

ServiceKey(s) == [build_id |-> s.build_id, token |-> s.token]

\* Name and labels a metadata map asks for.
NameOf(meta) == IF "service" \in DOMAIN meta THEN meta.service ELSE ""

LabelsOf(meta) ==
  [ k \in DOMAIN meta \ {"build_id", "token", "service", "received_at"} |->
      [String |-> meta[k], Valid |-> TRUE] ]

\* The services rows no ingestion wrote.
SeedServices == { s \in services : s.by = 0 }

\* The location-id array of a fact row, resolved through the dictionary;
\* an id with no row, or with several, resolves to the set of what it matches.
Resolve(ids) ==
  [ i \in DOMAIN ids |-> { Triple(l) : l \in { m \in locations : m.location_id = ids[i] } } ]

(***************************************************************************)
(* C1..C10                                                                 *)
(***************************************************************************)

\* C1: an ingestion that ended with an error after its transaction was opened
\* has left no row in services, profile_pprof_locations or
\* profile_pprof_samples_cpu, and holds no uncommitted row either.
C1_FailedIngestionLeavesNoRows ==
  \A p \in Procs :
    (Over(p) /\ err[p] # NoErr /\ tx[p].status # "none") =>
      /\ tx[p] = Tx("aborted")
      /\ RowsBy(services, p) = {}
      /\ RowsBy(locations, p) = {}
      /\ RowsBy(samples, p) = {}

\* C1 witness: an ingestion of a.prof failed at the commit, after it had
\* written its service, location and fact rows, and the tables hold none.
C1_Witness ==
  \E p \in Procs :
    /\ call[p].file = "a" /\ call[p].meta = MetaRun
    /\ pc[p] = "returned" /\ err[p].ctx = "could not commit transaction"
    /\ locations = {} /\ samples = {} /\ seq > 0

\* C2: services holds one row per (build_id, token); the rows of the schema
\* script stay as they are; any other row was written by the first
\* ingestion that committed for its identity and carries that ingestion's
\* name and labels; every committed ingestion finds a row for its identity;
\* and the insert never fails on a key conflict.
C2_ServicesFirstWriterWins ==
  /\ \A s \in services : ServiceConflicts(services, s) = {s}
  /\ \A s \in services \ SeedServices :
       /\ \E i \in DOMAIN commits :
            /\ commits[i] = s.by
            /\ \A j \in 1..(i - 1) : Identity(call[commits[j]].meta) # ServiceKey(s)
       /\ ServiceKey(s) = Identity(call[s.by].meta)
       /\ s.name = NameOf(call[s.by].meta)
       /\ s.labels = LabelsOf(call[s.by].meta)
  /\ SeedServices = SeedRows
  /\ \A p \in Procs :
       HasCommitted(p) =>
         \E s \in services : ServiceKey(s) = Identity(call[p].meta)
  /\ \A p \in Procs :
       err[p].ctx = StepContext["services"] => err[p].cause = "db error"

\* C2 witness: two committed ingestions for identity (456, fra.1) with
\* different names and labels; the row is that of the one that committed first.
C2_Witness ==
  \E p, q \in Procs :
    /\ Len(commits) = 2 /\ commits[1] = p /\ commits[2] = q
    /\ call[p].meta = MetaRenamed /\ call[q].meta = MetaRun
    /\ \E s \in services : s.by = p /\ s.name = "other_server"

\* C3: no two dictionary rows share (func, file_name, line) or an id, neither
\* among the committed rows nor among the rows any one transaction sees, and
\* the triples of the dictionary are exactly the triples of the snapshots
\* whose ingestion committed (the dictionary is empty before the first
\* ingestion).
C3_LocationsAreTheCommittedTriples ==
  /\ \A p \in Procs : \A l, m \in locations \cup tx[p].locations :
       (Triple(l) = Triple(m) \/ l.location_id = m.location_id) => l = m
  /\ { Triple(l) : l \in locations } =
       UNION { TriplesOf(Snapshot(p)) : p \in { q \in Procs : HasCommitted(q) } }

\* C3 witness: a.prof and b.prof, which share X and Y, are both committed and
\* the dictionary has two rows.
C3_Witness ==
  \E p, q \in Procs :
    /\ HasCommitted(p) /\ HasCommitted(q)
    /\ call[p].file = "a" /\ call[q].file = "b"
    /\ Cardinality(locations) = 2

\* C4 (as claimed): a committed ingestion has inserted as many fact rows as
\* its snapshot has samples.
C4_OneFactRowPerSample ==
  \A p \in Procs :
    HasCommitted(p) =>
      Cardinality(RowsBy(samples, p)) = Len(Snapshot(p).Sample)

\* C5 (as claimed): the location-id array of every committed fact row
\* resolves, element by element, to the (function, file, line) sequence of
\* its sample in staging order.
C5_ArrayReproducesSampleOrder ==
  \A r \in samples :
    LET lines == SampleLines(Snapshot(r.by).Sample[r.sample_id + 1])
    IN Resolve(r.locations) = [i \in DOMAIN lines |-> {lines[i]}]

\* C6 (as claimed): created_at of every committed fact row is the capture
\* time of the snapshot when it has one, and the ingestion time otherwise.
C6_CreatedAtCaptureOrIngestionTime ==
  \A r \in samples :
    r.created_at =
      IF Snapshot(r.by).TimeNanos # 0
        THEN UnixTime(Snapshot(r.by).TimeNanos)
        ELSE UnixTime(call[r.by].at)

\* The snapshot of caller p has a sample whose value vector is not of width 2.
HasOddSample(p) ==
  /\ call[p].file \in DOMAIN Files
  /\ \E s \in DOMAIN Snapshot(p).Sample : Len(Snapshot(p).Sample[s].Value) # 2

\* C7 (as claimed): the ingestion of a snapshot with a sample whose value
\* vector has not exactly two elements ends with an error and commits no row.
C7_OddSampleShapeRejected ==
  \A p \in Procs :
    (Over(p) /\ HasOddSample(p)) =>
      /\ err[p] # NoErr
      /\ RowsBy(services, p) = {}
      /\ RowsBy(locations, p) = {}
      /\ RowsBy(samples, p) = {}

\* The call of caller p names a file that does not decode, or metadata whose
\* received_at does not parse.
Undecodable(p) ==
  \/ call[p].file \notin DOMAIN Files
  \/ /\ "received_at" \in DOMAIN call[p].meta
     /\ call[p].meta.received_at \notin DOMAIN RFC3339

\* C8: a call with an undecodable file or an unparsable received_at has
\* returned an error without ever opening a transaction, staging a row or
\* writing a row to any table.
C8_ParseErrorBeforeTransaction ==
  \A p \in Procs :
    (pc[p] # "idle" /\ Undecodable(p)) =>
      /\ pc[p] = "returned" /\ err[p] # NoErr
      /\ tx[p] = Tx("none")
      /\ conn[p] = 0
      /\ RowsBy(services, p) = {}
      /\ RowsBy(locations, p) = {}
      /\ RowsBy(samples, p) = {}

\* C8 witness: one call failed on the file, another on received_at (whose
\* metadata has other keys as well), and the tables are as the script left them.
C8_Witness ==
  \E p, q \in Procs :
    /\ call[p].file = "corrupt" /\ err[p].cause = "parsing profile"
    /\ call[q].meta = MetaBadTime /\ err[q].cause = "parsing time"
    /\ services = SeedServices /\ locations = {} /\ samples = {}

\* C9 (as claimed): no ingestion fails in the location insert because of a
\* conflict with a concurrent ingestion, no triple has two rows, and every
\* id of a committed fact row is the id of the one row of its triple.
C9_ConcurrentInsertTolerated ==
  /\ \A p \in Procs :
       err[p].ctx = StepContext["locations"] => err[p].cause = "db error"
  /\ \A l, m \in locations : Triple(l) = Triple(m) => l = m
  /\ \A r \in samples : \A i \in DOMAIN r.locations :
       /\ Cardinality(Resolve(r.locations)[i]) = 1
       /\ Resolve(r.locations)[i] \subseteq
            Range(SampleLines(Snapshot(r.by).Sample[r.sample_id + 1]))

\* C10: of two committed ingestions of the same file for the same identity,
\* the one that committed later has as many fact rows as the first, so that
\* the snapshot has twice the rows of one ingestion, and it has written no
\* services row and no location row.
C10_ReingestionDoublesFactRows ==
  \A i, j \in DOMAIN commits :
    LET p == commits[i]
        q == commits[j]
    IN (/\ i < j
        /\ call[p].file = call[q].file
        /\ Identity(call[p].meta) = Identity(call[q].meta)) =>
         /\ Cardinality(RowsBy(samples, q)) = Cardinality(RowsBy(samples, p))
         /\ Cardinality(RowsBy(samples, p) \cup RowsBy(samples, q)) =
              2 * Cardinality(RowsBy(samples, p))
         /\ RowsBy(services, q) = {}
         /\ RowsBy(locations, q) = {}

\* C10 witness: a.prof committed twice for (456, fra.1): four fact rows, one
\* services row, two location rows.
C10_Witness ==
  /\ Len(commits) = 2
  /\ \A p \in Procs : call[p].file = "a" /\ call[p].meta = MetaRun
  /\ Cardinality(samples) = 4
  /\ Cardinality(services \ SeedServices) = 1
  /\ Cardinality(locations) = 2

(***************************************************************************)
(* C11..C20                                                                *)
(***************************************************************************)

\* The rows of the three tables a statement of caller q can read: the
\* committed rows and the rows of q's own transaction.
VisibleTo(q) ==
  (services \cup tx[q].services) \cup (locations \cup tx[q].locations)
    \cup (samples \cup tx[q].samples)

\* C11: every row another caller's statements can read, and every committed
\* row, was written by the schema script, by the reader itself or by an
\* ingestion that has committed; an ingestion that is still running or was
\* rolled back has no row anyone else can read.
C11_RowsVisibleOnlyOnceCommitted ==
  /\ \A q \in Procs : \A r \in VisibleTo(q) :
       r.by \in {0, q} \/ HasCommitted(r.by)
  /\ \A p \in Procs : \A r \in services \cup locations \cup samples :
       r.by = p => HasCommitted(p)
  /\ \A p \in Procs :
       tx[p].status # "active" =>
         tx[p].services \cup tx[p].locations \cup tx[p].samples = {}

\* C11 witness: one ingestion has written service, location and fact rows and
\* stands before its commit, while the other, in its own transaction, is at
\* its location insert and reads tables that hold none of them.
C11_Witness ==
  \E p, q \in Procs :
    /\ pc[p] = "commit" /\ tx[p].samples # {} /\ tx[p].locations # {}
    /\ tx[p].services # {}
    /\ pc[q] = "locations" /\ tx[q].status = "active"
    /\ \A r \in VisibleTo(q) : r.by # p

\* The keys createProfile treats as fields of the record, not as labels.
FieldKeys == {"build_id", "token", "service", "received_at"}

\* The field of the record a key of the metadata is for ("" when absent).
FieldOf(meta, k) == IF k \in DOMAIN meta THEN meta[k] ELSE ""

\* C12: once createProfile has returned a record for a call, the record has
\* build_id, token and service of the metadata as BuildID, Token and Service,
\* its labels are exactly the other keys except received_at, each with its
\* value, and createProfile returns this one record whatever the order in
\* which the keys are visited.
C12_ResolverMapsMetadata ==
  \A p \in Procs :
    (pc[p] # "idle" /\ ~Undecodable(p)) =>
      LET meta == call[p].meta
      IN /\ prof[p].BuildID = FieldOf(meta, "build_id")
         /\ prof[p].Token = FieldOf(meta, "token")
         /\ prof[p].Service = FieldOf(meta, "service")
         /\ DOMAIN prof[p].Labels = DOMAIN meta \ FieldKeys
         /\ \A k \in DOMAIN prof[p].Labels : prof[p].Labels[k] = meta[k]
         /\ createProfileResults(meta, call[p].file) =
              { [err |-> NoErr, prof |-> prof[p]] }

\* C12 witness: records were built from the metadata of run(), with two
\* labels, and from metadata with a received_at that parses and no label.
C12_Witness ==
  \E p, q \in Procs :
    /\ pc[p] # "idle" /\ call[p].meta = MetaRun
    /\ DOMAIN prof[p].Labels = {"dc", "host"}
    /\ pc[q] # "idle" /\ call[q].meta = MetaGoodTime
    /\ prof[q].ReceivedAt = UnixTime(500) /\ DOMAIN prof[q].Labels = {}

\* The positions that may follow each position of CreateProfile: Parsing
\* (idle), the open transaction (begin), ServiceRegistered (temptable),
\* staging (prepare, copy, flush), Staged (locations), LocationsResolved
\* (samples), SamplesInserted (close, commit), and the two ends.
Successors ==
  [ idle |-> {"begin", "returned"},
    begin |-> {"services", "returned"},
    services |-> {"temptable", "returned"},
    temptable |-> {"prepare", "returned"},
    prepare |-> {"copy", "flush", "returned"},
    copy |-> {"flush", "returned", "panicked"},
    flush |-> {"locations", "returned"},
    locations |-> {"samples", "returned"},
    samples |-> {"close", "returned"},
    close |-> {"commit", "returned"},
    commit |-> {"returned"},
    returned |-> {},
    panicked |-> {} ]

\* What one step of the system may do to the ingestion of caller p.
SequentialStep(p) ==
  /\ pc'[p] # pc[p] => pc'[p] \in Successors[pc[p]]
  /\ pc'[p] = pc[p] =>
       \/ idx'[p] = idx[p]
       \/ pc[p] \in {"copy", "locations"} /\ idx'[p] = idx[p] + 1
  /\ (pc'[p] = "returned" /\ pc[p] = "commit" /\ err'[p] = NoErr) =>
       /\ tx'[p] = Tx("committed")
       /\ tx[p].services \subseteq services'
       /\ tx[p].locations \subseteq locations'
       /\ tx[p].samples \subseteq samples'
  /\ (pc'[p] \in {"returned", "panicked"} /\ pc'[p] # pc[p]
        /\ ~(pc[p] = "commit" /\ err'[p] = NoErr)) =>
       /\ err'[p] # NoErr
       /\ tx'[p] = IF tx[p].status = "active" THEN Tx("aborted") ELSE tx[p]
  /\ Over(p) =>
       /\ pc'[p] = pc[p] /\ tx'[p] = tx[p] /\ err'[p] = err[p]
       /\ RowsBy(services', p) = RowsBy(services, p)
       /\ RowsBy(locations', p) = RowsBy(locations, p)
       /\ RowsBy(samples', p) = RowsBy(samples, p)

\* C13: an ingestion passes through its steps in the order of the code, each
\* once (a loop advances by one row at a time), with no step left out or
\* repeated; a failing step ends the ingestion at once with an error and the
\* transaction rolled back; after the end nothing of the ingestion changes,
\* and the return after a successful commit leaves its rows in the tables.
C13_StrictlySequential == [][\A p \in Procs : SequentialStep(p)]_vars

\* C13 witness: one ingestion committed its rows and returned nil, another
\* failed at its sample insert and was rolled back.
C13_Witness ==
  \E p, q \in Procs :
    /\ pc[p] = "returned" /\ err[p] = NoErr /\ tx[p] = Tx("committed")
    /\ RowsBy(samples, p) # {}
    /\ pc[q] = "returned" /\ err[q].ctx = StepContext["samples"]
    /\ tx[q] = Tx("aborted")

\* The rows caller p's snapshot stages, in the order of the COPY loop.
OwnTuples(p) == CopyArgs(Snapshot(p))

\* C14: every row of a staging table was staged by the transaction now open
\* on its connection, and is one of the first tuples of that ingestion's own
\* snapshot; so the table is empty until the transaction's first COPY and
\* empty again once it committed or was rolled back, whoever used the
\* connection before and whoever runs beside it.  The locations and the
\* fact rows of an ingestion come from the entries of its own snapshot.
C14_StagingIsPerTransaction ==
  /\ \A c \in Conns : \A i \in DOMAIN tmp[c].rows :
       LET p == tmp[c].rows[i].by
       IN /\ p \in Procs /\ conn[p] = c /\ tx[p].status = "active"
          /\ i <= Len(OwnTuples(p))
          /\ tmp[c].rows[i].row = StagedRow(OwnTuples(p)[i])
  /\ \A p \in Procs :
       /\ pc[p] \in {"services", "temptable", "prepare"} => tmp[conn[p]].rows = << >>
       /\ (Over(p) /\ conn[p] # 0 /\ \A q \in Procs : conn[q] = conn[p] => Over(q)) =>
            tmp[conn[p]].rows = << >>
       /\ \A l \in RowsBy(locations \cup tx[p].locations, p) :
            Triple(l) \in TriplesOf(Snapshot(p))
       /\ \A r \in RowsBy(samples \cup tx[p].samples, p) :
            /\ r.sample_id + 1 \in DOMAIN Snapshot(p).Sample
            /\ r.value_cpu = Snapshot(p).Sample[r.sample_id + 1].Value[1]
            /\ \A i \in DOMAIN r.locations :
                 \E l \in locations \cup tx[p].locations :
                   /\ l.location_id = r.locations[i]
                   /\ Triple(l) \in Range(SampleLines(Snapshot(p).Sample[r.sample_id + 1]))

\* C14 witness: an ingestion runs on the connection an earlier one used and
\* left, after that one had staged rows and either committed them or failed
\* midway, and it has staged rows of its own and inserted its fact rows.
C14_Witness ==
  \E p, q \in Procs :
    /\ p # q /\ conn[p] = conn[q] /\ conn[q] # 0
    /\ Over(p) /\ Len(OwnTuples(p)) > 0
    /\ \/ tx[p] = Tx("committed")
       \/ err[p].ctx = StepContext["locations"]
    /\ pc[q] = "close" /\ tx[q].samples # {}
    /\ Len(tmp[conn[q]].rows) = Len(OwnTuples(q))

\* The ingestion of file p ended without a commit: an error, a panic or a stop.
Failed(p) ==
  \/ pc[p] = "returned" /\ err[p] # NoErr
  \/ pc[p] \in {"panicked", "stopped"}

\* The state of a run over a list of files.
RunState ==
  \A k \in Procs :
    /\ pc[k] # "idle" =>
         \A j \in 1..(k - 1) :
           /\ pc[j] = "returned" /\ err[j] = NoErr /\ tx[j] = Tx("committed")
           /\ \E i \in DOMAIN commits : commits[i] = j /\
                \A m \in DOMAIN commits : commits[m] = k => i < m
           /\ Cardinality(RowsBy(samples, j)) =
                Cardinality({ t.sample_id : t \in Range(OwnTuples(j)) })
           /\ TriplesOf(Snapshot(j)) \subseteq { Triple(l) : l \in locations }
           /\ \E s \in services : ServiceKey(s) = Identity(MetaRun)
    /\ Failed(k) =>
         /\ tx[k] \in {Tx("none"), Tx("aborted")}
         /\ RowsBy(services, k) = {}
         /\ RowsBy(locations, k) = {}
         /\ RowsBy(samples, k) = {}
         /\ \A j \in Procs : j > k => pc[j] = "idle"
    /\ tx[k].status = "active" => \A j \in Procs \ {k} : tx[j].status # "active"

\* What a step of a run leaves alone: the rows of the files already committed.
RunStep ==
  \A j \in Procs :
    HasCommitted(j) =>
      /\ RowsBy(services', j) = RowsBy(services, j)
      /\ RowsBy(locations', j) = RowsBy(locations, j)
      /\ RowsBy(samples', j) = RowsBy(samples, j)
      /\ HasCommitted(j)'

\* C15: run ingests its files in list order, each in a transaction of its
\* own that has committed before the next file is started; when the
\* ingestion of file k fails, panics or is cut short by the end of the
\* process, the rows of files 1..k-1 stay committed and unchanged, file k
\* leaves no row, and no later file is started.
C15_RunStopsAtFirstFailure == []RunState /\ [][RunStep]_vars

\* C15 witness: the first file was committed with its fact rows, and the
\* ingestion of the second was cut short after its location insert had run.
C15_Witness ==
  /\ NumCallers >= 2
  /\ tx[1] = Tx("committed") /\ RowsBy(samples, 1) # {}
  /\ pc[2] = "stopped" /\ tx[2] = Tx("aborted") /\ seq > Cardinality(locations)
  /\ call[2].file = "b"

\* C16: every error CreateProfile returns carries the context of the step
\* that failed and the cause below it, and a failed step never returns nil.
C16_EveryErrorNamesItsStep ==
  \A p \in Procs :
    /\ (pc[p] = "returned" /\ err[p] # NoErr) => (err[p].ctx # "" /\ err[p].cause # "")
    /\ (pc[p] = "returned" /\ err[p] = NoErr) => tx[p] = Tx("committed")

\* How often x occurs in the sequence f.
Count(f, x) == Cardinality({ i \in DOMAIN f : f[i] = x })

\* The sample of its snapshot a fact row was aggregated from.
SampleOf(r) == Snapshot(r.by).Sample[r.sample_id + 1]

\* C17: the location array of every committed fact row has one id per
\* (location, line) entry of its sample; every id resolves to one call site,
\* and each call site of the sample is resolved to as often as it occurs in
\* the sample, in whatever order; and the fact rows of one ingestion all
\* carry the build_id, token and created_at of that ingestion.
C17_ArrayHasOneIdPerLine ==
  \A r \in samples :
    /\ Len(r.locations) = Len(SampleLines(SampleOf(r)))
    /\ \A i \in DOMAIN r.locations : Cardinality(Resolve(r.locations)[i]) = 1
    /\ \A t \in Range(SampleLines(SampleOf(r))) :
         Count(Resolve(r.locations), {t}) = Count(SampleLines(SampleOf(r)), t)
    /\ r.build_id = prof[r.by].BuildID /\ r.token = prof[r.by].Token
    /\ r.created_at = prof[r.by].CreatedAt
    /\ \A q \in RowsBy(samples, r.by) :
         q.build_id = r.build_id /\ q.token = r.token /\ q.created_at = r.created_at

\* C17 witness: committed fact rows of a sample that calls one site twice
\* (two ids, the same) and of a sample whose one location has two inlined
\* lines (two ids, different).
C17_Witness ==
  \E r, q \in samples :
    /\ call[r.by].file = "a" /\ r.sample_id = 0
    /\ Len(r.locations) = 2 /\ r.locations[1] = r.locations[2]
    /\ call[q.by].file = "b"
    /\ Len(q.locations) = 2 /\ q.locations[1] # q.locations[2]

\* The columns of a fact row (sample_id and by are not columns).
Columns(r) ==
  [ build_id |-> r.build_id, token |-> r.token, locations |-> r.locations,
    created_at |-> r.created_at, value_cpu |-> r.value_cpu,
    value_nanos |-> r.value_nanos ]

\* C18: a committed ingestion has one fact row for each of its samples that
\* has line entries, also for samples that agree in values and call sites;
\* and a fact row has the values of one sample and no more ids than that
\* sample has line entries.
C18_SamplesAreNotMerged ==
  \A p \in Procs :
    HasCommitted(p) =>
      /\ \A s \in DOMAIN Snapshot(p).Sample :
           SampleLines(Snapshot(p).Sample[s]) # << >> =>
             Cardinality({ r \in RowsBy(samples, p) : r.sample_id = s - 1 }) = 1
      /\ \A r \in RowsBy(samples, p) :
           /\ r.sample_id + 1 \in DOMAIN Snapshot(p).Sample
           /\ r.value_cpu = SampleOf(r).Value[1]
           /\ r.value_nanos = SampleOf(r).Value[2]
           /\ Len(r.locations) <= Len(SampleLines(SampleOf(r)))

\* C18 witness: a committed ingestion of b.prof, whose two samples are the
\* same, has two fact rows that agree in every column.
C18_Witness ==
  \E p \in Procs :
    /\ HasCommitted(p) /\ call[p].file = "b"
    /\ \E r, q \in RowsBy(samples, p) :
         r.sample_id # q.sample_id /\ Columns(r) = Columns(q)

\* The committed tables refer to the dictionary soundly: a location_id names
\* one row, and every id of a fact row's array names a row.
DictionarySound ==
  /\ \A l, m \in locations : l.location_id = m.location_id => l = m
  /\ \A r \in samples : \A i \in DOMAIN r.locations :
       \E l \in locations : l.location_id = r.locations[i]

\* A step leaves every committed dictionary row as it is.
DictionaryKept == \A l \in locations : l \in locations'

\* C19: in every state each id in a committed fact row's array is the id of
\* one row of profile_pprof_locations, and no step, of an ingestion that
\* commits or of one that is rolled back, removes a dictionary row or
\* changes the (func, file_name, line) of its id.
C19_DictionaryIsStable == []DictionarySound /\ [][DictionaryKept]_vars

\* C19 witness: a committed fact row refers to a dictionary row that an
\* earlier ingestion wrote, while the other caller's ingestion is over.
C19_Witness ==
  \E r \in samples, l \in locations :
    /\ l.by # r.by /\ l.location_id \in Range(r.locations)
    /\ \A p \in Procs : Over(p)

\* Caller p called CreateProfile with a file that decodes to a snapshot
\* without samples and with metadata createProfile accepts.
EmptySnapshot(p) ==
  /\ pc[p] # "idle"
  /\ call[p].file \in DOMAIN Files
  /\ Snapshot(p).Sample = << >>
  /\ \A r \in createProfileResults(call[p].meta, call[p].file) : r.err = NoErr

\* C20: the ingestion of a decodable snapshot without samples and with valid
\* metadata never ends with an error of its own (only a failing database
\* call can end it) and never panics; it writes no location row and no fact
\* row; and once it returned nil it is committed and services has a row for
\* its identity, its own row if no transaction committed one before it.
C20_EmptySnapshotCommits ==
  \A p \in Procs :
    EmptySnapshot(p) =>
      /\ pc[p] \notin {"copy", "panicked"}
      /\ err[p] # NoErr => (pc[p] = "returned" /\ err[p].cause = "db error")
      /\ RowsBy(locations \cup tx[p].locations, p) = {}
      /\ RowsBy(samples \cup tx[p].samples, p) = {}
      /\ (pc[p] = "returned" /\ err[p] = NoErr) =>
           /\ HasCommitted(p)
           /\ \E s \in services : ServiceKey(s) = Identity(call[p].meta)
           /\ (\A i \in DOMAIN commits :
                 (Identity(call[commits[i]].meta) = Identity(call[p].meta)) =>
                   \E j \in 1..i : commits[j] = p) =>
                \E s \in RowsBy(services, p) : ServiceKey(s) = Identity(call[p].meta)

\* C20 witness: the ingestion of z.prof returned nil and is committed, its
\* services row is in the table, and the dictionary and the fact table are
\* as empty as before.
C20_Witness ==
  \E p \in Procs :
    /\ call[p].file = "z" /\ pc[p] = "returned" /\ err[p] = NoErr
    /\ HasCommitted(p) /\ RowsBy(services, p) # {}
    /\ locations = {} /\ samples = {}

====
